---- MODULE Spec2Model ----
(***************************************************************************)
(* Model of the video-game catalogue service: the normalisers of           *)
(* lib/utils.ts, the loader and facet computation of lib/data-loader.ts    *)
(* and the GET /api/products route handler.                                *)
(*                                                                         *)
(* JavaScript strings are sequences of one-character strings; JavaScript   *)
(* numbers are exact decimals [k, n, d] (value n/d, d a power of ten),     *)
(* with k telling a number from NaN, null and undefined.                   *)
(***************************************************************************)
EXTENDS Integers, Sequences, FiniteSets, TLC

(***************************************************************************)
(* Characters, in ascending UTF-16 code unit order.  The letters e, E, I,  *)
(* x and X are left out, so that no string of the model is an exponent, an *)
(* "Infinity" or a hexadecimal literal for parseFloat / parseInt.          *)
(***************************************************************************)
CharOrder ==
  << " ", ",", "-", ".",
     "0", "1", "2", "3", "4", "5", "6", "7", "8", "9",
     "A", "B", "G", "L", "M", "N", "P", "S", "T",
     "a", "b", "g", "l", "m", "n", "o", "p", "r", "s", "t", "u", "y" >>

Digits == <<"0", "1", "2", "3", "4", "5", "6", "7", "8", "9">>

UpperCase == <<"A", "B", "G", "L", "M", "N", "P", "S", "T">>

LowerCase == <<"a", "b", "g", "l", "m", "n", "p", "s", "t">>

Range(seq) == { seq[i] : i \in 1..Len(seq) }

IndexIn(c, seq) == CHOOSE i \in 1..Len(seq) : seq[i] = c

\* the rank of every character in code unit order
CharCodes == [c \in Range(CharOrder) |-> IndexIn(c, CharOrder)]

CharCode(c) == CharCodes[c]

DigitValues == [c \in Range(Digits) |-> IndexIn(c, Digits) - 1]

IsDigit(c) == c \in DOMAIN DigitValues

DigitValue(c) == DigitValues[c]

LowerCaseOf == [c \in Range(UpperCase) |-> LowerCase[IndexIn(c, UpperCase)]]

IsSpace(c) == c = " "

(***************************************************************************)
(* String.prototype methods used by the program.                           *)
(***************************************************************************)
toLowerCase(s) ==
  [i \in 1..Len(s) |-> IF s[i] \in DOMAIN LowerCaseOf THEN LowerCaseOf[s[i]] ELSE s[i]]

RECURSIVE trimStart(_)
trimStart(s) ==
  IF s # <<>> /\ IsSpace(Head(s)) THEN trimStart(Tail(s)) ELSE s

RECURSIVE trimEnd(_)
trimEnd(s) ==
  IF s # <<>> /\ IsSpace(s[Len(s)]) THEN trimEnd(SubSeq(s, 1, Len(s) - 1)) ELSE s

trim(s) == trimEnd(trimStart(s))

\* s.includes(sub)
includes(s, sub) ==
  \E i \in 1..(Len(s) - Len(sub) + 1) : SubSeq(s, i, i + Len(sub) - 1) = sub

\* s.includes(c) for a single character c
includesChar(s, c) == \E i \in 1..Len(s) : s[i] = c

\* s.replace(/c/g, '') : every occurrence of the character removed
RemoveAll(s, c) == SelectSeq(s, LAMBDA x : x # c)

\* s.replace(/\s/g, '')
RemoveSpaces(s) == SelectSeq(s, LAMBDA x : ~IsSpace(x))

\* s.replace(c, r) with a string pattern: only the first occurrence is replaced
ReplaceFirst(s, c, r) ==
  IF includesChar(s, c)
    THEN LET i == CHOOSE j \in 1..Len(s) :
                    s[j] = c /\ \A k \in 1..(j - 1) : s[k] # c
         IN  [s EXCEPT ![i] = r]
    ELSE s

\* s.split(c): the pieces between the occurrences of the character c
RECURSIVE split(_, _)
split(s, c) ==
  IF includesChar(s, c)
    THEN LET i == CHOOSE j \in 1..Len(s) :
                    s[j] = c /\ \A k \in 1..(j - 1) : s[k] # c
         IN  <<SubSeq(s, 1, i - 1)>> \o split(SubSeq(s, i + 1, Len(s)), c)
    ELSE <<s>>

\* parts.join(' ')
RECURSIVE join(_)
join(parts) ==
  IF parts = <<>> THEN <<>>
  ELSE IF Len(parts) = 1 THEN parts[1]
  ELSE parts[1] \o <<" ">> \o join(Tail(parts))

\* the default comparison of Array.prototype.sort: code unit order
RECURSIVE StrLess(_, _)
StrLess(a, b) ==
  IF b = <<>> THEN FALSE
  ELSE IF a = <<>> THEN TRUE
  ELSE IF CharCode(Head(a)) # CharCode(Head(b))
         THEN CharCode(Head(a)) < CharCode(Head(b))
  ELSE StrLess(Tail(a), Tail(b))

\* the longest prefix of s made of digits
RECURSIVE DigitRun(_)
DigitRun(s) ==
  IF s # <<>> /\ IsDigit(Head(s)) THEN <<Head(s)>> \o DigitRun(Tail(s)) ELSE <<>>

RECURSIVE DigitsValue(_)
DigitsValue(ds) ==
  IF ds = <<>> THEN 0
  ELSE 10 * DigitsValue(SubSeq(ds, 1, Len(ds) - 1)) + DigitValue(ds[Len(ds)])

RECURSIVE Pow10(_)
Pow10(k) == IF k = 0 THEN 1 ELSE 10 * Pow10(k - 1)

(***************************************************************************)
(* JavaScript numbers.                                                     *)
(***************************************************************************)
NaN == [k |-> "NaN", n |-> 0, d |-> 1]

null == [k |-> "null", n |-> 0, d |-> 1]

undefined == [k |-> "undefined", n |-> 0, d |-> 1]

RECURSIVE Num(_, _)
Num(n, d) ==
  IF d > 1 /\ n % 10 = 0 THEN Num(n \div 10, d \div 10)
  ELSE [k |-> "number", n |-> n, d |-> d]

Int2Num(i) == Num(i, 1)

IsNumber(x) == x.k = "number"

isNaN(x) == x.k = "NaN"

\* a <= b, a >= b, a < b on numbers: false as soon as an operand is NaN
NumLE(a, b) == IsNumber(a) /\ IsNumber(b) /\ a.n * b.d <= b.n * a.d

NumGE(a, b) == NumLE(b, a)

NumLT(a, b) == IsNumber(a) /\ IsNumber(b) /\ a.n * b.d < b.n * a.d

\* a - b: NaN when an operand is undefined or NaN
NumSub(a, b) ==
  IF IsNumber(a) /\ IsNumber(b) THEN Num(a.n * b.d - b.n * a.d, a.d * b.d) ELSE NaN

NumMul(a, i) == Num(a.n * i, a.d)

\* Math.floor and Math.ceil of a number, as integers
Floor(a) == a.n \div a.d

Ceil(a) == -((-a.n) \div a.d)

\* the sign of a numeric string and the string after it
IsNegative(s) == s # <<>> /\ Head(s) = "-"

Unsigned(s) == IF s # <<>> /\ Head(s) \in {"-", "+"} THEN Tail(s) ELSE s

\* the digits after a dot at the head of rest
FractionDigits(rest) ==
  IF rest # <<>> /\ Head(rest) = "." THEN DigitRun(Tail(rest)) ELSE <<>>

\* the number with integer digits ip and fraction digits fp
Decimal(neg, ip, fp) ==
  IF ip = <<>> /\ fp = <<>> THEN NaN
  ELSE Num((IF neg THEN -1 ELSE 1)
             * (DigitsValue(ip) * Pow10(Len(fp)) + DigitsValue(fp)),
           Pow10(Len(fp)))

FloatOf(neg, body, ip) ==
  Decimal(neg, ip, FractionDigits(SubSeq(body, Len(ip) + 1, Len(body))))

SignedFloat(s) == FloatOf(IsNegative(s), Unsigned(s), DigitRun(Unsigned(s)))

\* parseFloat: leading white space, a sign, digits, a dot and digits
parseFloat(str) == SignedFloat(trimStart(str))

IntOf(neg, ip) ==
  IF ip = <<>> THEN NaN ELSE Int2Num((IF neg THEN -1 ELSE 1) * DigitsValue(ip))

SignedInt(s) == IntOf(IsNegative(s), DigitRun(Unsigned(s)))

\* parseInt: leading white space, a sign, digits
parseInt(str) == SignedInt(trimStart(str))

\* the decimal digits of a natural number
RECURSIVE DigitsOf(_)
DigitsOf(i) ==
  IF i < 10 THEN <<Digits[i + 1]>> ELSE DigitsOf(i \div 10) \o <<Digits[(i % 10) + 1]>>

\* the digits of i, with zeros in front up to the width
RECURSIVE Padded(_, _)
Padded(ds, width) == IF Len(ds) >= width THEN ds ELSE Padded(<<"0">> \o ds, width)

\* the number of digits of the power of ten d, less one
RECURSIVE Log10(_)
Log10(d) == IF d <= 1 THEN 0 ELSE 1 + Log10(d \div 10)

\* the text of a number that is not negative: its integer part, and a dot and
\* the fraction digits when it has a fraction
UnsignedToString(n, d) ==
  DigitsOf(n \div d)
    \o (IF d = 1 THEN <<>> ELSE <<".">> \o Padded(DigitsOf(n % d), Log10(d)))

\* Number.prototype.toString of a number between 1e-6 and 1e21 in magnitude
NumberToString(x) ==
  IF x.n < 0 THEN <<"-">> \o UnsignedToString(-x.n, x.d) ELSE UnsignedToString(x.n, x.d)

(***************************************************************************)
(* lib/utils.ts                                                            *)
(***************************************************************************)
\* the separators without the thousands rule: a dot is always a decimal point
CleanSeparators_DotIsDecimal(cleaned, parts) ==
  IF includesChar(cleaned, ",")
    THEN ReplaceFirst(RemoveAll(cleaned, "."), ",", ".")
  ELSE cleaned

\* lines 11-29: the separators of a price that has no white space; parts is
\* cleaned.split('.')
CleanSeparators(cleaned, parts) ==
  IF includesChar(cleaned, ",")
    THEN ReplaceFirst(RemoveAll(cleaned, "."), ",", ".")
  ELSE IF includesChar(cleaned, ".")
    THEN IF Len(parts) = 2
           THEN IF Len(parts[2]) = 2 THEN cleaned
                ELSE RemoveAll(cleaned, ".")
           ELSE RemoveAll(cleaned, ".")
  ELSE cleaned

\* lines 32-33
ZeroIfNaN(num) == IF isNaN(num) THEN Int2Num(0) ELSE num

CleanPrice(cleaned) ==
  ZeroIfNaN(parseFloat(CleanSeparators(cleaned, split(cleaned, "."))))

normalizePrice(priceStr) ==
  IF priceStr = <<>> \/ trim(priceStr) = <<>> THEN Int2Num(0)
  ELSE CleanPrice(RemoveSpaces(trim(priceStr)))

RECURSIVE SkipSpaces(_)
SkipSpaces(s) == IF s # <<>> /\ IsSpace(Head(s)) THEN SkipSpaces(Tail(s)) ELSE s

StartsWithUnit(r, unit) ==
  Len(r) >= 2 /\ toLowerCase(SubSeq(r, 1, 2)) = toLowerCase(unit)

\* does s start with the unit (two letters, any case) after optional white space
UnitAhead(s, unit) == StartsWithUnit(SkipSpaces(s), unit)

\* the digits after a dot or a comma at the head of r1
StorageFraction(r1) ==
  IF r1 # <<>> /\ Head(r1) \in {".", ","} THEN DigitRun(Tail(r1)) ELSE <<>>

\* the capture, given the integer digits d1, the text r1 after them and the
\* fraction digits d2 at the head of r1
Capture(d1, r1, d2, unit) ==
  IF d1 = <<>> THEN <<>>
  ELSE IF d2 # <<>> /\ UnitAhead(SubSeq(r1, Len(d2) + 2, Len(r1)), unit)
    THEN d1 \o <<Head(r1)>> \o d2
  ELSE IF UnitAhead(r1, unit) THEN d1
  ELSE <<>>

CaptureAfter(d1, r1, unit) == Capture(d1, r1, StorageFraction(r1), unit)

MatchFrom(from, d1, unit) ==
  CaptureAfter(d1, SubSeq(from, Len(d1) + 1, Len(from)), unit)

\* the capture of /(\d+(?:[.,]\d+)?)\s*<unit>/i anchored at position i, or <<>>
MatchAt(s, i, unit) ==
  MatchFrom(SubSeq(s, i, Len(s)), DigitRun(SubSeq(s, i, Len(s))), unit)

Leftmost(s, hits, unit) ==
  IF hits = {} THEN <<>>
  ELSE MatchAt(s, CHOOSE i \in hits : \A j \in hits : i <= j, unit)

\* storageStr.match(pattern)[1]: the capture of the leftmost match, or <<>>
FirstMatch(s, unit) ==
  Leftmost(s, { i \in 1..Len(s) : MatchAt(s, i, unit) # <<>> }, unit)

TBinGB == 1024

\* the patterns tried in the other order: GB before TB
StorageValue_GBFirst(tb, gb) ==
  IF gb # <<>> THEN parseFloat(ReplaceFirst(gb, ",", "."))
  ELSE IF tb # <<>> THEN NumMul(parseFloat(ReplaceFirst(tb, ",", ".")), TBinGB)
  ELSE null

\* lines 52-58: the value of the first pattern that matched, TB before GB
StorageValue(tb, gb) ==
  IF tb # <<>> THEN NumMul(parseFloat(ReplaceFirst(tb, ",", ".")), TBinGB)
  ELSE IF gb # <<>> THEN parseFloat(ReplaceFirst(gb, ",", "."))
  ELSE null

extractStorageInGB(storageStr) ==
  IF storageStr = <<>> \/ trim(storageStr) = <<>> THEN null
  ELSE StorageValue(FirstMatch(storageStr, <<"T", "B">>),
                    FirstMatch(storageStr, <<"G", "B">>))

hasGames(jogosIncluidos) == trim(jogosIncluidos) # <<>>

(***************************************************************************)
(* lib/types.ts.  A RawProduct as the model keeps it: the fields the       *)
(* program reads, and link_pagina, which tells the listings apart.  The    *)
(* other fields (preco_parcelado, console_type, com_leitor_disco,          *)
(* data_coleta, disponibilidade) are copied through and never read.        *)
(***************************************************************************)
RawProduct(link, preco, modelo, nome, tipo, cor, espaco, jogos, controles, marca, site) ==
  [ link_pagina          |-> link,
    preco_vista          |-> preco,
    modelo               |-> modelo,
    nome_anuncio         |-> nome,
    tipo                 |-> tipo,
    cor                  |-> cor,
    espaco_armazenamento |-> espaco,
    jogos_incluidos      |-> jogos,
    inclui_controles     |-> controles,
    marca                |-> marca,
    site_origem          |-> site ]

\* the normalised record built by the map callback of loadProducts
Product(raw) ==
  [ link_pagina             |-> raw.link_pagina,
    preco_vista             |-> normalizePrice(raw.preco_vista),
    modelo                  |-> raw.modelo,
    nome_anuncio            |-> raw.nome_anuncio,
    tipo                    |-> raw.tipo,
    cor                     |-> raw.cor,
    espaco_armazenamento    |-> raw.espaco_armazenamento,
    espaco_armazenamento_gb |-> extractStorageInGB(raw.espaco_armazenamento),
    jogos_incluidos         |-> raw.jogos_incluidos,
    inclui_jogos            |-> hasGames(raw.jogos_incluidos),
    inclui_controles        |-> raw.inclui_controles,
    marca                   |-> raw.marca,
    site_origem             |-> raw.site_origem ]

\* product.originalIndex: a property the record does not have reads undefined
originalIndex(p) ==
  IF "originalIndex" \in DOMAIN p THEN p.originalIndex ELSE undefined

(***************************************************************************)
(* The listings the two source files may hold.                             *)
(***************************************************************************)
MagazineluizaPool ==
  << RawProduct("mag1", <<"3","9","9","9",".","0","0">>, <<"P","S","5">>,
                <<"P","S","5"," ","S">>, <<"A">>, <<"b">>,
                <<"8","2","5"," ","G","B">>, <<>>, <<"S","m">>, <<"S">>, <<"m","a","g">>),
     RawProduct("mag2", <<"4",".","4","9","9">>, <<"P","S","5">>,
                <<"P","s","5"," ","P","r","o">>, <<"B">>, <<>>,
                <<"1","T","B">>, <<"G">>, <<"N","a","o">>, <<"S">>, <<"m","a","g">>),
     RawProduct("mag3", <<"4","4","9",",","9","0">>, <<" ">>,
                <<"N","S">>, <<"A">>, <<>>,
                <<>>, <<" ">>, <<>>, <<"N">>, <<"m","a","g">>) >>

MercadolivrePool ==
  << RawProduct("ml1", <<"4","4","9",",","9","0">>, <<"N","S">>,
                <<"N","S"," ","L">>, <<"B">>, <<>>,
                <<>>, <<>>, <<"S","m">>, <<"N">>, <<"m","l">>),
     RawProduct("ml2", <<"3","9","9","9",".","0","0">>, <<"P","S","5">>,
                <<"P","S","5">>, <<"A">>, <<"b">>,
                <<"1"," ","T","B">>, <<"G">>, <<"S","m">>, <<"S">>, <<"m","l">>),
     RawProduct("ml3", <<>>, <<>>,
                <<"A">>, <<>>, <<>>,
                <<"2",",","5"," ","G","B">>, <<>>, <<>>, <<>>, <<"m","l">>) >>

\* the largest number of listings of one source file
MaxPerSource == 2

Min(a, b) == IF a < b THEN a ELSE b

Max(a, b) == IF a > b THEN a ELSE b

(***************************************************************************)
(* lib/data-loader.ts: loadProducts.  cache is the module variable         *)
(* cachedProducts ([set, arr]: null or the array), fs the content of the   *)
(* two files, bad the files whose read or parse throws.  The result is the *)
(* returned array, the cache afterwards, whether the call read the files   *)
(* and whether it returned the cached array object itself.                 *)
(***************************************************************************)
NoCache == [set |-> FALSE, arr |-> <<>>]

MapProduct(seq) == [i \in 1..Len(seq) |-> Product(seq[i])]

\* lines 37-38: the array is cached and returned
Loaded(normalizedProducts) ==
  [ret   |-> normalizedProducts,
   cache |-> [set |-> TRUE, arr |-> normalizedProducts],
   read  |-> TRUE, hit |-> FALSE]

\* loadProducts without the test of cachedProducts: every call loads again
loadProducts_NoCacheCheck(cache, fs, bad) ==
  IF "magazineluiza" \in bad \/ "mercadolivre" \in bad
    THEN [ret |-> <<>>, cache |-> cache, read |-> TRUE, hit |-> FALSE]
  ELSE Loaded(MapProduct(fs.magazineluiza \o fs.mercadolivre))

\* loadProducts caching the first source before the second one is read
loadProducts_CachePartial(cache, fs, bad) ==
  IF cache.set
    THEN [ret |-> cache.arr, cache |-> cache, read |-> FALSE, hit |-> TRUE]
  ELSE IF "magazineluiza" \in bad
    THEN [ret |-> <<>>, cache |-> cache, read |-> TRUE, hit |-> FALSE]
  ELSE IF "mercadolivre" \in bad
    THEN [ret |-> <<>>, cache |-> [set |-> TRUE, arr |-> MapProduct(fs.magazineluiza)],
          read |-> TRUE, hit |-> FALSE]
  ELSE Loaded(MapProduct(fs.magazineluiza \o fs.mercadolivre))

\* loadProducts with a catch that returns what was read so far
loadProducts_ReturnPartial(cache, fs, bad) ==
  IF cache.set
    THEN [ret |-> cache.arr, cache |-> cache, read |-> FALSE, hit |-> TRUE]
  ELSE IF "magazineluiza" \in bad
    THEN [ret |-> <<>>, cache |-> cache, read |-> TRUE, hit |-> FALSE]
  ELSE IF "mercadolivre" \in bad
    THEN [ret |-> MapProduct(fs.magazineluiza), cache |-> cache,
          read |-> TRUE, hit |-> FALSE]
  ELSE Loaded(MapProduct(fs.magazineluiza \o fs.mercadolivre))

loadProducts(cache, fs, bad) ==
  IF cache.set
    THEN [ret |-> cache.arr, cache |-> cache, read |-> FALSE, hit |-> TRUE]
  ELSE IF "magazineluiza" \in bad \/ "mercadolivre" \in bad
    THEN [ret |-> <<>>, cache |-> cache, read |-> TRUE, hit |-> FALSE]
  ELSE Loaded(MapProduct(fs.magazineluiza \o fs.mercadolivre))

(***************************************************************************)
(* lib/data-loader.ts: getFilterValues.                                    *)
(***************************************************************************)
Infinity == [k |-> "Infinity", n |-> 0, d |-> 1]

\* Math.min(acc, x) and Math.max(acc, x) on an accumulator and a number
MathMin(acc, x) == IF acc.k = "Infinity" \/ NumLT(x, acc) THEN x ELSE acc

MathMax(acc, x) == IF NumLT(acc, x) THEN x ELSE acc

\* Array.from(set).sort(): the strings of the set in code unit order
RECURSIVE SortedStrings(_)
SortedStrings(S) ==
  IF S = {} THEN <<>>
  ELSE LET m == CHOOSE x \in S : \A y \in S \ {x} : StrLess(x, y)
       IN  <<m>> \o SortedStrings(S \ {m})

\* the values of the field that are not the empty string, blank ones included
Distinct_KeepsBlank(products, field) ==
  { products[i][field] : i \in { j \in 1..Len(products) : products[j][field] # <<>> } }

Distinct(products, field) ==
  { products[i][field] : i \in { j \in 1..Len(products) : trim(products[j][field]) # <<>> } }

\* the forEach body for precoMin / precoMax
RECURSIVE PrecoFold(_, _)
PrecoFold(products, acc) ==
  IF products = <<>> THEN acc
  ELSE LET p == Head(products)
       IN  PrecoFold(Tail(products),
             IF NumLT(Int2Num(0), p.preco_vista)
               THEN [min |-> MathMin(acc.min, p.preco_vista),
                     max |-> MathMax(acc.max, p.preco_vista)]
               ELSE acc)

\* the forEach body for espacoMin / espacoMax
RECURSIVE EspacoFold(_, _)
EspacoFold(products, acc) ==
  IF products = <<>> THEN acc
  ELSE LET p == Head(products)
       IN  EspacoFold(Tail(products),
             IF p.espaco_armazenamento_gb # null
               THEN [min |-> MathMin(acc.min, p.espaco_armazenamento_gb),
                     max |-> MathMax(acc.max, p.espaco_armazenamento_gb)]
               ELSE acc)

FallbackPrecoMax == 10000

FallbackEspacoMax == 2000

\* lines 83-92: the returned object, from the four sets and the two ranges
FilterValues(products, preco, espaco) ==
  [ modelos   |-> SortedStrings(Distinct(products, "modelo")),
    tipos     |-> SortedStrings(Distinct(products, "tipo")),
    marcas    |-> SortedStrings(Distinct(products, "marca")),
    sites     |-> SortedStrings(Distinct(products, "site_origem")),
    precoMin  |-> IF preco.min = Infinity THEN 0 ELSE Floor(preco.min),
    precoMax  |-> IF preco.max = Int2Num(0) THEN FallbackPrecoMax ELSE Ceil(preco.max),
    espacoMin |-> IF espaco.min = Infinity THEN 0 ELSE Floor(espaco.min),
    espacoMax |-> IF espaco.max = Int2Num(0) THEN FallbackEspacoMax ELSE Ceil(espaco.max) ]

getFilterValues(products) ==
  FilterValues(products,
               PrecoFold(products, [min |-> Infinity, max |-> Int2Num(0)]),
               EspacoFold(products, [min |-> Infinity, max |-> Int2Num(0)]))

(***************************************************************************)
(* app/api/products/route.ts: the query string.  searchParams.get(name)    *)
(* is Some(text) or None (null).                                           *)
(***************************************************************************)
Some(v) == [def |-> TRUE, v |-> v]

None == [def |-> FALSE, v |-> <<>>]

\* a string in a condition: null and '' are falsy
Truthy(param) == param.def /\ param.v # <<>>

ParamNames ==
  { "query", "precoMin", "precoMax", "modelo", "tipo", "marca", "site_origem",
    "inclui_controles", "inclui_jogos", "espacoMin", "espacoMax",
    "sortBy", "page", "limit" }

NoParams == [name \in ParamNames |-> None]

DefaultPage == 1

DefaultLimit == 20

\* lines 10-25: the SearchFilters parsed from the query string
ParseFilters(sp) ==
  [ query            |-> IF Truthy(sp.query) THEN sp.query ELSE None,
    precoMin         |-> IF Truthy(sp.precoMin) THEN parseFloat(sp.precoMin.v) ELSE undefined,
    precoMax         |-> IF Truthy(sp.precoMax) THEN parseFloat(sp.precoMax.v) ELSE undefined,
    modelo           |-> IF Truthy(sp.modelo) THEN Some(split(sp.modelo.v, ",")) ELSE None,
    tipo             |-> IF Truthy(sp.tipo) THEN Some(split(sp.tipo.v, ",")) ELSE None,
    marca            |-> IF Truthy(sp.marca) THEN Some(split(sp.marca.v, ",")) ELSE None,
    site_origem      |-> IF Truthy(sp.site_origem)
                           THEN Some(split(sp.site_origem.v, ",")) ELSE None,
    inclui_controles |-> IF Truthy(sp.inclui_controles) THEN sp.inclui_controles ELSE None,
    inclui_jogos     |-> IF sp.inclui_jogos = Some(<<"t", "r", "u", "e">>)
                           THEN Some(TRUE) ELSE None,
    espacoMin        |-> IF Truthy(sp.espacoMin) THEN parseFloat(sp.espacoMin.v) ELSE undefined,
    espacoMax        |-> IF Truthy(sp.espacoMax) THEN parseFloat(sp.espacoMax.v) ELSE undefined,
    sortBy           |-> IF Truthy(sp.sortBy) THEN sp.sortBy.v
                           ELSE <<"o", "r", "i", "g", "i", "n", "a", "l">>,
    page             |-> IF Truthy(sp.page) THEN parseInt(sp.page.v) ELSE Int2Num(DefaultPage),
    limit            |-> IF Truthy(sp.limit) THEN parseInt(sp.limit.v) ELSE Int2Num(DefaultLimit) ]

(***************************************************************************)
(* Lines 30-82: the filter stages.  A working array is [arr, same]: same   *)
(* tells that it is still the array object loadProducts returned, which    *)
(* holds until the first Array.prototype.filter builds a new array.        *)
(***************************************************************************)
\* a stage that keeps the first record that passes and drops the others
Stage_KeepFirst(st, active, kept) ==
  IF active
    THEN [arr |-> IF \E i \in 1..Len(st.arr) : st.arr[i] \in kept
                    THEN <<Head(SelectSeq(st.arr, LAMBDA p : p \in kept))>>
                    ELSE <<>>,
          same |-> FALSE]
    ELSE st

Stage(st, active, kept) ==
  IF active THEN [arr |-> SelectSeq(st.arr, LAMBDA p : p \in kept), same |-> FALSE]
            ELSE st

\* a membership test that looks at the first value of the list only
InList_FirstOnly(list, x) == list # <<>> /\ list[1] = x

\* array.includes(x)
InList(list, x) == \E i \in 1..Len(list) : list[i] = x

\* the searched text without the conversion to lower case
searchableText_CaseSensitive(product) ==
  join(SelectSeq(
    <<product.nome_anuncio, product.modelo, product.tipo, product.marca, product.cor>>,
    LAMBDA x : x # <<>>))

\* lines 34-43
searchableText(product) ==
  toLowerCase(join(SelectSeq(
    <<product.nome_anuncio, product.modelo, product.tipo, product.marca, product.cor>>,
    LAMBDA x : x # <<>>)))

QueryStage(st, f) ==
  Stage(st, f.query.def,
        {p \in Range(st.arr) : includes(searchableText(p), toLowerCase(f.query.v))})

\* price stages whose bounds are exclusive
PrecoStages_Exclusive(st, f) ==
  LET s1 == Stage(st, f.precoMin # undefined,
                  {p \in Range(st.arr) : NumLT(f.precoMin, p.preco_vista)})
  IN  Stage(s1, f.precoMax # undefined,
            {p \in Range(s1.arr) : NumLT(p.preco_vista, f.precoMax)})

PrecoStages(st, f) ==
  LET s1 == Stage(st, f.precoMin # undefined,
                  {p \in Range(st.arr) : NumGE(p.preco_vista, f.precoMin)})
  IN  Stage(s1, f.precoMax # undefined,
            {p \in Range(s1.arr) : NumLE(p.preco_vista, f.precoMax)})

CategoricalStages(st, f) ==
  LET s1 == Stage(st, f.modelo.def /\ Len(f.modelo.v) > 0,
                  {p \in Range(st.arr) : InList(f.modelo.v, p.modelo)})
      s2 == Stage(s1, f.tipo.def /\ Len(f.tipo.v) > 0,
                  {p \in Range(s1.arr) : InList(f.tipo.v, p.tipo)})
      s3 == Stage(s2, f.marca.def /\ Len(f.marca.v) > 0,
                  {p \in Range(s2.arr) : InList(f.marca.v, p.marca)})
  IN  Stage(s3, f.site_origem.def /\ Len(f.site_origem.v) > 0,
            {p \in Range(s3.arr) : InList(f.site_origem.v, p.site_origem)})

\* boolean stages without the stage for inclui_jogos
BooleanStages_IgnoresJogos(st, f) ==
  Stage(st, f.inclui_controles.def,
        {p \in Range(st.arr) : p.inclui_controles = f.inclui_controles.v})

BooleanStages(st, f) ==
  LET s1 == Stage(st, f.inclui_controles.def,
                  {p \in Range(st.arr) : p.inclui_controles = f.inclui_controles.v})
  IN  Stage(s1, f.inclui_jogos.def,
            {p \in Range(s1.arr) : p.inclui_jogos = f.inclui_jogos.v})

\* storage stages that let a record without a storage value pass
EspacoStages_NullPasses(st, f) ==
  LET s1 == Stage(st, f.espacoMin # undefined,
                  {p \in Range(st.arr) :
                     \/ p.espaco_armazenamento_gb = null
                     \/ NumGE(p.espaco_armazenamento_gb, f.espacoMin)})
  IN  Stage(s1, f.espacoMax # undefined,
            {p \in Range(s1.arr) :
               \/ p.espaco_armazenamento_gb = null
               \/ NumLE(p.espaco_armazenamento_gb, f.espacoMax)})

EspacoStages(st, f) ==
  LET s1 == Stage(st, f.espacoMin # undefined,
                  {p \in Range(st.arr) :
                     /\ p.espaco_armazenamento_gb # null
                     /\ NumGE(p.espaco_armazenamento_gb, f.espacoMin)})
  IN  Stage(s1, f.espacoMax # undefined,
            {p \in Range(s1.arr) :
               /\ p.espaco_armazenamento_gb # null
               /\ NumLE(p.espaco_armazenamento_gb, f.espacoMax)})

ApplyFilters(products, f) ==
  EspacoStages(BooleanStages(CategoricalStages(PrecoStages(
    QueryStage([arr |-> products, same |-> TRUE], f), f), f), f), f)

(***************************************************************************)
(* Lines 84-91: Array.prototype.sort, a stable sort in place.              *)
(***************************************************************************)
SortByOriginal == <<"o", "r", "i", "g", "i", "n", "a", "l">>

SortByPrecoAsc == <<"p", "r", "e", "c", "o", "_", "a", "s", "c">>

SortByPrecoDesc == <<"p", "r", "e", "c", "o", "_", "d", "e", "s", "c">>

\* the sign of what the comparator of the mode returns; a NaN counts as +0
SortCompare(mode, a, b) ==
  LET v == IF mode = SortByPrecoAsc THEN NumSub(a.preco_vista, b.preco_vista)
           ELSE IF mode = SortByPrecoDesc THEN NumSub(b.preco_vista, a.preco_vista)
           ELSE NumSub(originalIndex(a), originalIndex(b))
  IN  IF isNaN(v) THEN 0 ELSE IF v.n < 0 THEN -1 ELSE IF v.n > 0 THEN 1 ELSE 0

\* x put into the sorted list before the elements that compare equal to it
InsertSorted_BeforeEqual(mode, sorted, x) ==
  LET le == { i \in 1..Len(sorted) : SortCompare(mode, sorted[i], x) < 0 }
      j  == IF le = {} THEN 0 ELSE CHOOSE i \in le : \A k \in le : k <= i
  IN  SubSeq(sorted, 1, j) \o <<x>> \o SubSeq(sorted, j + 1, Len(sorted))

\* x put into the sorted list after the last element that is not greater
InsertSorted(mode, sorted, x) ==
  LET le == { i \in 1..Len(sorted) : SortCompare(mode, sorted[i], x) <= 0 }
      j  == IF le = {} THEN 0 ELSE CHOOSE i \in le : \A k \in le : k <= i
  IN  SubSeq(sorted, 1, j) \o <<x>> \o SubSeq(sorted, j + 1, Len(sorted))

RECURSIVE StableSort(_, _)
StableSort(mode, arr) ==
  IF arr = <<>> THEN <<>>
  ELSE InsertSorted(mode, StableSort(mode, SubSeq(arr, 1, Len(arr) - 1)), arr[Len(arr)])

\* the if / else if chain: which modes call products.sort at all
Sorts(sortBy) == sortBy \in {SortByPrecoAsc, SortByPrecoDesc, SortByOriginal}

SortProducts(st, sortBy) ==
  IF Sorts(sortBy) THEN [st EXCEPT !.arr = StableSort(sortBy, st.arr)] ELSE st

(***************************************************************************)
(* Lines 93-99 and 110: pagination.                                        *)
(***************************************************************************)
\* x || dflt on a number: 0 and NaN are falsy
OrDefault(x, dflt) == IF isNaN(x) \/ x.n = 0 THEN dflt ELSE x.n

\* slice with the end index taken as included
slice_EndInclusive(arr, start, end) ==
  LET len  == Len(arr)
      from == IF start < 0 THEN Max(len + start, 0) ELSE Min(start, len)
      to   == IF end < 0 THEN Max(len + end + 1, 0) ELSE Min(end + 1, len)
  IN  SubSeq(arr, from + 1, to)

\* Array.prototype.slice(start, end) with 0-based indices
slice(arr, start, end) ==
  LET len  == Len(arr)
      from == IF start < 0 THEN Max(len + start, 0) ELSE Min(start, len)
      to   == IF end < 0 THEN Max(len + end, 0) ELSE Min(end, len)
  IN  SubSeq(arr, from + 1, to)

\* Math.ceil(total / limit) for limit # 0 (a result of -0 is 0)
CeilDiv(total, limit) ==
  IF limit > 0 THEN -((-total) \div limit) ELSE -(total \div (-limit))

\* pagination that shows the last page for a page number beyond it
Paginate_ClampToLastPage(products, f) ==
  LET total      == Len(products)
      limit      == OrDefault(f.limit, DefaultLimit)
      totalPages == CeilDiv(total, limit)
      asked      == OrDefault(f.page, DefaultPage)
      page       == IF asked > totalPages /\ totalPages >= 1 THEN totalPages ELSE asked
      startIndex == (page - 1) * limit
      endIndex   == startIndex + limit
  IN  [ products   |-> slice(products, startIndex, endIndex),
        total      |-> total,
        page       |-> asked,
        limit      |-> limit,
        totalPages |-> totalPages ]

Paginate(products, f) ==
  LET total      == Len(products)
      page       == OrDefault(f.page, DefaultPage)
      limit      == OrDefault(f.limit, DefaultLimit)
      startIndex == (page - 1) * limit
      endIndex   == startIndex + limit
  IN  [ products   |-> slice(products, startIndex, endIndex),
        total      |-> total,
        page       |-> page,
        limit      |-> limit,
        totalPages |-> CeilDiv(total, limit) ]

(***************************************************************************)
(* Lines 101-103: the facets, and the record of a loadProducts call.       *)
(***************************************************************************)
\* the facets taken from the filtered working array
Facets_OverFiltered(allProducts, products) == getFilterValues(products)

\* lines 101-103: the facets, from the array the second loadProducts call returns
Facets(allProducts, products) == getFilterValues(allProducts)

\* what one loadProducts call did: the cache was set before it, it read the
\* files, it returned the cached array object, it returned an empty array, the
\* cache was set after it
Call(before, l) ==
  [ cached |-> before.set, read |-> l.read, hit |-> l.hit,
    empty |-> l.ret = <<>>, set |-> l.cache.set ]

\* lines 105-112: the JSON body
Response(paged, filterValues) ==
  [ status     |-> 200,
    products   |-> paged.products,
    total      |-> paged.total,
    page       |-> paged.page,
    limit      |-> paged.limit,
    totalPages |-> paged.totalPages,
    filters    |-> filterValues ]

\* products.sort is in place: when no filter stage built a new array, the
\* sorted array is the cached array object itself
CacheAfterSort(sorted, cache) ==
  IF sorted.same /\ cache.set THEN [set |-> TRUE, arr |-> sorted.arr] ELSE cache

\* the arrays loadProducts built and cached in the calls l1 and l2
Loads(l1, l2) ==
  (IF l1.read /\ l1.cache.set THEN 1 ELSE 0) + (IF l2.read /\ l2.cache.set THEN 1 ELSE 0)

(***************************************************************************)
(* The query strings of the model: no parameter, one parameter, two        *)
(* parameters, and a page with a limit beside one more parameter.          *)
(***************************************************************************)
ParamChoices ==
  { <<"query", <<"p", "s", "5">>>>, <<"query", <<>>>>,
    <<"query", <<"5", " ", "A">>>>,
    <<"precoMin", <<"3", "9", "9", "9">>>>, <<"precoMin", <<"b">>>>,
    <<"precoMax", <<"3", "9", "9", "9", ".", "0", "0">>>>,
    <<"modelo", <<>>>>, <<"modelo", <<"P", "S", "5">>>>, <<"modelo", <<"N", "S", ",", "P", "S", "5">>>>,
    <<"tipo", <<"A">>>>,
    <<"marca", <<"N">>>>,
    <<"site_origem", <<"m", "l">>>>,
    <<"inclui_controles", <<"S", "m">>>>,
    <<"inclui_jogos", <<"t", "r", "u", "e">>>>,
    <<"inclui_jogos", <<"f", "a", "l", "s", "e">>>>,
    <<"espacoMin", <<"0">>>>, <<"espacoMin", <<"1", "0", "2", "4">>>>,
    <<"espacoMax", <<"8", "2", "5">>>>,
    <<"sortBy", SortByOriginal>>, <<"sortBy", SortByPrecoAsc>>,
    <<"sortBy", SortByPrecoDesc>>, <<"sortBy", <<"b", "y">>>>,
    <<"page", <<"-", "1">>>>, <<"page", <<"0">>>>, <<"page", <<"1">>>>,
    <<"page", <<"2">>>>, <<"page", <<"3">>>>,
    <<"limit", <<"-", "1">>>>, <<"limit", <<"0">>>>, <<"limit", <<"1">>>>,
    <<"limit", <<"2">>>> }

With(sp, c) == [sp EXCEPT ![c[1]] = Some(c[2])]

OneParam == { With(NoParams, c) : c \in ParamChoices }

ControlNames == {"sortBy", "page", "limit"}

\* two parameters, one of them at least a sort mode, a page or a limit
TwoParams ==
  { With(With(NoParams, c[1]), c[2]) :
      c \in { cc \in ParamChoices \X ParamChoices :
                /\ cc[1][1] # cc[2][1]
                /\ cc[2][1] \in ControlNames } }

PagedParams ==
  { With(sp, <<"limit", <<"2">>>>) : sp \in { t \in TwoParams : t.page.def /\ ~t.limit.def } }

\* two filters on different parameters
FilterPairs ==
  { With(With(NoParams, c[1]), c[2]) :
      c \in { cc \in ParamChoices \X ParamChoices :
                /\ cc[1][1] # cc[2][1]
                /\ cc[1][1] \notin ControlNames
                /\ cc[2][1] \notin ControlNames } }

Requests == {NoParams} \cup OneParam \cup TwoParams \cup PagedParams \cup FilterPairs

(***************************************************************************)
(* The state of the server process.                                        *)
(***************************************************************************)
VARIABLES
  files,           \* the listings of the two JSON files
  cachedProducts,  \* the module variable of data-loader.ts
  loadCount,       \* how many arrays loadProducts has built and cached
  loadCalled,      \* loadProducts has been called in this process
  waiting,         \* requests accepted before the cache was set, not dispatched yet
  pc,              \* "idle", or "done": GET has returned, the response is not sent yet
  request,         \* the query string of the request being answered
  unreadable,      \* the files whose read or parse threw while GET ran for it
  waited,          \* it is one of the requests accepted before the cache was set
  response,        \* the body GET returned for it
  calls,           \* the two loadProducts calls GET made for it
  evaluated        \* the array line 28 got from loadProducts for it

vars ==
  << files, cachedProducts, loadCount, loadCalled, waiting,
     pc, request, unreadable, waited, response, calls, evaluated >>

FileNames == {"magazineluiza", "mercadolivre"}

\* the largest number of requests accepted while the first load has not completed
MaxWaiting == 2

NoResponse ==
  [ status |-> 0, products |-> <<>>, total |-> 0, page |-> 0, limit |-> 0,
    totalPages |-> 0, filters |-> getFilterValues(<<>>) ]

NoCall == [cached |-> FALSE, read |-> FALSE, hit |-> FALSE, empty |-> TRUE, set |-> FALSE]

(***************************************************************************)
(* The page in the browser: app/page.tsx (Home), components/SearchBar.tsx  *)
(* and components/FilterPanel.tsx.  A SearchFilters object is the sequence *)
(* of its properties in insertion order; the value of a property is a      *)
(* string, a number, a boolean or undefined.                               *)
(***************************************************************************)
Str(s) == [t |-> "string", s |-> s, n |-> 0]

Number(n) == [t |-> "number", s |-> <<>>, n |-> n]

True == [t |-> "boolean", s |-> <<>>, n |-> 1]

Undef == [t |-> "undefined", s |-> <<>>, n |-> 0]

\* a value in a condition: '', 0, false and undefined are falsy
IsTruthy(v) ==
  CASE v.t = "string"  -> v.s # <<>>
    [] v.t = "number"  -> v.n # 0
    [] v.t = "boolean" -> v.n = 1
    [] OTHER           -> FALSE

Prop(key, value) == [key |-> key, value |-> value]

HasKey(obj, key) == \E i \in 1..Len(obj) : obj[i].key = key

\* obj[key]
Get(obj, key) ==
  IF HasKey(obj, key)
    THEN obj[CHOOSE i \in 1..Len(obj) : obj[i].key = key].value
    ELSE Undef

\* { ...obj, [key]: value }: a property the object has keeps its place
Assign(obj, key, value) ==
  IF HasKey(obj, key)
    THEN [i \in 1..Len(obj) |-> IF obj[i].key = key THEN Prop(key, value) ELSE obj[i]]
    ELSE Append(obj, Prop(key, value))

\* JSON.stringify(obj): the properties in their order, without the undefined
JSONstringify(obj) == SelectSeq(obj, LAMBDA p : p.value # Undef)

\* the initial value of a filtersRef: '', which is the JSON text of no object
EmptyKey == <<Prop("", Undef)>>

\* the initial filters of Home, and the filters of clearFilters
DefaultFilters ==
  << Prop("sortBy", Str(SortByPrecoAsc)), Prop("page", Number(1)), Prop("limit", Number(20)) >>

\* value.toString() for a property appended to the URLSearchParams
ParamText(v) ==
  CASE v.t = "number"  -> (IF v.n < 0 THEN <<"-">> \o DigitsOf(-v.n) ELSE DigitsOf(v.n))
    [] v.t = "boolean" -> (IF v.n = 1 THEN <<"t", "r", "u", "e">>
                                      ELSE <<"f", "a", "l", "s", "e">>)
    [] OTHER           -> v.s

\* Home lines 194-209: the query string of the fetch.  The filters of the
\* model hold no array, so that no category parameter is ever appended.
URLSearchParams(f) ==
  [ name \in ParamNames |->
      CASE name \in {"query", "inclui_controles", "sortBy", "page", "limit"} ->
             (IF IsTruthy(Get(f, name)) THEN Some(ParamText(Get(f, name))) ELSE None)
        [] name \in {"precoMin", "precoMax", "inclui_jogos", "espacoMin", "espacoMax"} ->
             (IF Get(f, name) # Undef THEN Some(ParamText(Get(f, name))) ELSE None)
        [] OTHER -> None ]

\* the delay of the timer of SearchBar, in milliseconds
DebounceMs == 300

\* the most fetches of the page that are in flight together
MaxInFlight == 2

\* the word the user types into the search bar, key by key
SearchWord == <<"p", "s">>

VARIABLES
  home,         \* Home: mounted, and its state and filtersRef
  filterPanel,  \* FilterPanel: localFilters and its filtersRef
  searchBar,    \* SearchBar: query, and the timers that are pending
  typed,        \* for how long the query of SearchBar is what it is, and the
                \* value of the last timer cleared since the last onSearch call
  fetches,      \* the fetches of Home in flight, oldest first
  latest,       \* the body the most recent fetch of Home has received, if any
  called        \* the onSearch call of the step that has just been taken

pageVars == << home, filterPanel, searchBar, typed, fetches, latest, called >>

NotCalled == [def |-> FALSE, value |-> <<>>, text |-> <<>>, unchanged |-> 0, cancelled |-> None]

NoBody == [def |-> FALSE, body |-> NoResponse]

\* the page is not open: the components with the initial values of their
\* useState and useRef calls, no timer, nothing in flight
Unmounted ==
  /\ home = [ mounted      |-> FALSE,
              filters      |-> DefaultFilters,
              filtersRef   |-> EmptyKey,
              products     |-> <<>>,
              loading      |-> TRUE,
              filterValues |-> [ modelos |-> <<>>, tipos |-> <<>>, marcas |-> <<>>,
                                 sites |-> <<>>, precoMin |-> 0, precoMax |-> 10000,
                                 espacoMin |-> 0, espacoMax |-> 2000 ],
              total        |-> 0,
              totalPages   |-> 0,
              currentPage  |-> 1 ]
  /\ filterPanel = [localFilters |-> DefaultFilters, filtersRef |-> EmptyKey]
  /\ searchBar = [query |-> <<>>, timers |-> {}]
  /\ typed = [unchanged |-> 0, cancelled |-> None]
  /\ fetches = <<>>
  /\ latest = NoBody
  /\ called = NotCalled

\* the process has started: nothing is cached, no request is being answered
Started ==
  /\ cachedProducts = NoCache
  /\ loadCount = 0
  /\ loadCalled = FALSE
  /\ waiting = 0
  /\ pc = "idle"
  /\ request = NoParams
  /\ unreadable = {}
  /\ waited = FALSE
  /\ response = NoResponse
  /\ calls = <<NoCall, NoCall>>
  /\ evaluated = <<>>
  /\ Unmounted

Init ==
  /\ files \in { [ magazineluiza |-> SubSeq(MagazineluizaPool, 1, m),
                   mercadolivre  |-> SubSeq(MercadolivrePool, 1, n) ] :
                 m \in 0..Min(MaxPerSource, Len(MagazineluizaPool)),
                 n \in 0..Min(MaxPerSource, Len(MercadolivrePool)) }
  /\ Started

\* The event loop accepts a request while no load has completed yet: one of
\* the concurrently arriving first requests.  Its query string is read when
\* its handler starts.
Arrive ==
  /\ pc = "idle"
  /\ ~cachedProducts.set
  /\ waiting < MaxWaiting
  /\ waiting' = waiting + 1
  /\ UNCHANGED << files, cachedProducts, loadCount, loadCalled,
                  pc, request, unreadable, waited, response, calls, evaluated >>

\* The route handler, for the oldest waiting request or else for a request
\* that has just come in.  It has no await, so it runs to its return without
\* interleaving.  bad is the set of files whose read or parse throws while it
\* runs; with the cache set no file is read, and bad is taken empty.
GET(sp, bad) ==
  /\ pc = "idle"
  /\ cachedProducts.set => bad = {}
  /\ \E filters \in {ParseFilters(sp)},
        load1 \in {loadProducts(cachedProducts, files, bad)} :
     \E sorted \in {SortProducts(ApplyFilters(load1.ret, filters), filters.sortBy)} :
     \E cache1 \in {CacheAfterSort(sorted, load1.cache)} :
     \E load2 \in {loadProducts(cache1, files, bad)} :
       /\ response' = Response(Paginate(sorted.arr, filters),
                               Facets(load2.ret, sorted.arr))
       /\ cachedProducts' = load2.cache
       /\ calls' = <<Call(cachedProducts, load1), Call(cache1, load2)>>
       /\ evaluated' = load1.ret
       /\ loadCount' = loadCount + Loads(load1, load2)
  /\ loadCalled' = TRUE
  /\ waiting' = IF waiting > 0 THEN waiting - 1 ELSE 0
  /\ waited' = (waiting > 0)
  /\ request' = sp
  /\ unreadable' = bad
  /\ pc' = "done"
  /\ UNCHANGED files

\* the runtime writes the response out; the handler's locals are gone
SendResponse ==
  /\ pc = "done"
  /\ pc' = "idle"
  /\ request' = NoParams
  /\ unreadable' = {}
  /\ waited' = FALSE
  /\ response' = NoResponse
  /\ calls' = <<NoCall, NoCall>>
  /\ evaluated' = <<>>
  /\ UNCHANGED <<files, cachedProducts, loadCount, loadCalled, waiting>>

\* requests answered one after the other
Next ==
  \/ \E sp \in Requests, bad \in SUBSET FileNames : GET(sp, bad) /\ UNCHANGED pageVars
  \/ SendResponse /\ UNCHANGED pageVars

Spec == Init /\ [][Next]_vars

\* first requests that arrive together, with at most one parameter each
NextConcurrent ==
  \/ Arrive /\ UNCHANGED pageVars
  \/ \E sp \in {NoParams} \cup OneParam, bad \in SUBSET FileNames :
       GET(sp, bad) /\ UNCHANGED pageVars
  \/ SendResponse /\ UNCHANGED pageVars

SpecConcurrent == Init /\ [][NextConcurrent]_vars

(***************************************************************************)
(* Notions the properties are stated with.                                 *)
(***************************************************************************)
(* The facets of any selection of the listings: each file holds up to      *)
(* MaxPerSource listings of its pool, in the order of the pool.            *)
(***************************************************************************)
\* the sequences of at most MaxPerSource elements of pool, in pool order
Selections(pool) ==
  { SelectSeq(pool, LAMBDA raw : raw.link_pagina \in keep) :
      keep \in { k \in SUBSET { pool[i].link_pagina : i \in 1..Len(pool) } :
                   Cardinality(k) <= MaxPerSource } }

InitFacets ==
  /\ files \in { [ magazineluiza |-> a, mercadolivre |-> b ] :
                 a \in Selections(MagazineluizaPool), b \in Selections(MercadolivrePool) }
  /\ Started

NextFacets ==
  \/ \E bad \in SUBSET FileNames : GET(NoParams, bad) /\ UNCHANGED pageVars
  \/ SendResponse /\ UNCHANGED pageVars

SpecFacets == InitFacets /\ [][NextFacets]_vars

(***************************************************************************)
(* The normalisation of any price text: the one listing of the first file  *)
(* has a price made of digits, dots, commas and spaces.                    *)
(***************************************************************************)
PriceChars == {"4", "9", ".", ",", " "}

\* the longest price text drawn from PriceChars
MaxPriceLen == 4

Strings(chars, n) == UNION { [1..k -> chars] : k \in 0..n }

PriceTexts ==
  Strings(PriceChars, MaxPriceLen)
    \cup { <<"3", "9", "9", "9", ".", "0", "0">>, <<"4", ".", "4", "9", "9">>,
           <<"4", "4", "9", ",", "9", "0">>, <<"4", ",", "9", ",", "4">> }

PriceListing(text) ==
  RawProduct("p1", text, <<"P","S","5">>, <<"P","S","5">>, <<"A">>, <<>>,
             <<>>, <<>>, <<>>, <<"S">>, <<"m","a","g">>)

InitPrices ==
  /\ files \in { [ magazineluiza |-> <<PriceListing(text)>>, mercadolivre |-> <<>> ] :
                 text \in PriceTexts }
  /\ Started

NextPrices ==
  \/ GET(NoParams, {}) /\ UNCHANGED pageVars
  \/ SendResponse /\ UNCHANGED pageVars

SpecPrices == InitPrices /\ [][NextPrices]_vars

(***************************************************************************)
(* The normalisation of a price text with a sign or a letter in it.        *)
(***************************************************************************)
SignedPriceChars == {"4", ".", ",", "-", "b"}

SignedPriceTexts == Strings(SignedPriceChars, MaxPriceLen)

InitSignedPrices ==
  /\ files \in { [ magazineluiza |-> <<PriceListing(text)>>, mercadolivre |-> <<>> ] :
                 text \in SignedPriceTexts }
  /\ Started

SpecSignedPrices == InitSignedPrices /\ [][NextPrices]_vars

(***************************************************************************)
(* The storage of any storage text: the one listing of the first file has  *)
(* an espaco_armazenamento made of at most MaxStoragePieces pieces, or one *)
(* of the texts of the comment of line 43 and some more.                   *)
(***************************************************************************)
StoragePieces == { <<"1">>, <<"5">>, <<",">>, <<" ">>, <<"T", "B">>, <<"g", "b">> }

\* the largest number of pieces of a storage text
MaxStoragePieces == 4

RECURSIVE Flatten(_)
Flatten(pieces) == IF pieces = <<>> THEN <<>> ELSE Head(pieces) \o Flatten(Tail(pieces))

StorageTexts ==
  { Flatten(ps) : ps \in Strings(StoragePieces, MaxStoragePieces) }
    \cup { <<"8", "2", "5", " ", "G", "B">>, <<"8", "2", "5", "G", "B">>,
           <<"1", " ", "T", "B">>, <<"1", "T", "B">>,
           <<"1", ".", "5", "t", "B">>, <<"1", ".", "5", ".", "5", "G", "b">>,
           <<"5", "G", "B", " ", "1", ",", "5", " ", "t", "b">>,
           <<"S", "S", "T", "B">>, <<"1", " ", "T">>, <<"2", "B", "G">> }

StorageListing(text) ==
  RawProduct("s1", <<"4">>, <<"P","S","5">>, <<"P","S","5">>, <<"A">>, <<>>,
             text, <<>>, <<>>, <<"S">>, <<"m","a","g">>)

InitStorage ==
  /\ files \in { [ magazineluiza |-> <<StorageListing(text)>>, mercadolivre |-> <<>> ] :
                 text \in StorageTexts }
  /\ Started

SpecStorage == InitStorage /\ [][NextPrices]_vars

(***************************************************************************)
(* A collection of three records priced "3999.00", "4.499" and "449,90":   *)
(* the three listings of the first pool, in any order and split over the   *)
(* two files at any place, asked for page by page in every sort mode.      *)
(***************************************************************************)
\* the arrangements of the elements of pool
Arrangements(pool) ==
  { [i \in 1..Len(pool) |-> pool[o[i]]] :
      o \in { f \in [1..Len(pool) -> 1..Len(pool)] :
                \A i, j \in 1..Len(pool) : i # j => f[i] # f[j] } }

InitEndToEnd ==
  /\ files \in { [ magazineluiza |-> SubSeq(a, 1, k),
                   mercadolivre  |-> SubSeq(a, k + 1, Len(a)) ] :
                 a \in Arrangements(MagazineluizaPool), k \in 0..Len(MagazineluizaPool) }
  /\ Started

\* a sort mode, a page and a limit, each given or not
EndToEndRequests ==
  { [NoParams EXCEPT !.sortBy = s, !.page = p, !.limit = l] :
      s \in {None, Some(SortByPrecoAsc), Some(SortByPrecoDesc)},
      p \in {None, Some(<<"1">>), Some(<<"2">>), Some(<<"3">>)},
      l \in {None, Some(<<"0">>), Some(<<"1">>), Some(<<"2">>), Some(<<"-", "1">>)} }

NextEndToEnd ==
  \/ \E sp \in EndToEndRequests, bad \in SUBSET FileNames :
       GET(sp, bad) /\ UNCHANGED pageVars
  \/ SendResponse /\ UNCHANGED pageVars

SpecEndToEnd == InitEndToEnd /\ [][NextEndToEnd]_vars

(***************************************************************************)
(* The page and the server together.  A state update of a component, the   *)
(* render and the effects that follow it are one step: React runs the      *)
(* pending effects before it handles the next event.                       *)
(***************************************************************************)
\* Home lines 182-187: the effect fetches, the filters being set to newFilters
KeyChanged(h, newFilters) == h.filtersRef # JSONstringify(newFilters)

\* Home after setFilters(newFilters) and the start of its effect
HomeAfter(h, newFilters) ==
  IF KeyChanged(h, newFilters)
    THEN [h EXCEPT !.filters = newFilters,
                   !.filtersRef = JSONstringify(newFilters),
                   !.loading = TRUE]
    ELSE [h EXCEPT !.filters = newFilters]

\* Home line 211: the fetch that has just been sent
Fetch(f) ==
  [params |-> URLSearchParams(f), state |-> "sent", body |-> NoResponse, last |-> TRUE]

FetchesAfter(h, fs, newFilters) ==
  IF KeyChanged(h, newFilters)
    THEN Append([i \in 1..Len(fs) |-> [fs[i] EXCEPT !.last = FALSE]], Fetch(newFilters))
    ELSE fs

\* FilterPanel lines 33-40: the effect that follows the filters of Home
PanelAfter(panel, newFilters) ==
  IF panel.filtersRef # JSONstringify(newFilters)
    THEN [localFilters |-> newFilters, filtersRef |-> JSONstringify(newFilters)]
    ELSE panel

\* setFilters(newFilters) in Home with the effects of Home and of FilterPanel;
\* panel is FilterPanel as its own handler has left it
setFilters(newFilters, panel) ==
  /\ KeyChanged(home, newFilters) => Len(fetches) < MaxInFlight
  /\ home' = HomeAfter(home, newFilters)
  /\ fetches' = FetchesAfter(home, fetches, newFilters)
  /\ latest' = IF KeyChanged(home, newFilters) THEN NoBody ELSE latest
  /\ filterPanel' = PanelAfter(panel, newFilters)

Timer(value) == [value |-> value, elapsed |-> 0]

\* the effect of SearchBar without its cleanup: the pending timer stays
TimersAfterChange_NoClear(timers, text) == timers \cup {Timer(text)}

\* SearchBar lines 19-25: the cleanup clears the timer of the last effect, the
\* effect starts one for the new query
TimersAfterChange(timers, text) == {Timer(text)}

\* the page is opened: the first render and the effects of the three components
Mount ==
  /\ ~home.mounted
  /\ home' = HomeAfter([home EXCEPT !.mounted = TRUE], home.filters)
  /\ fetches' = FetchesAfter(home, fetches, home.filters)
  /\ latest' = NoBody
  /\ filterPanel' = PanelAfter(filterPanel, home.filters)
  /\ searchBar' = [searchBar EXCEPT !.timers = TimersAfterChange(@, searchBar.query)]
  /\ called' = NotCalled
  /\ UNCHANGED typed
  /\ UNCHANGED vars

\* the texts one key stroke away from q: the next letter of the word, or the
\* last letter deleted
Keystrokes(q) ==
  { Append(q, SearchWord[Len(q) + 1]) :
      x \in { y \in {1} : Len(q) < Len(SearchWord) /\ q = SubSeq(SearchWord, 1, Len(q)) } }
    \cup { SubSeq(q, 1, Len(q) - 1) : x \in { y \in {1} : q # <<>> } }

\* SearchBar line 48: the user changes the text
onChange(text) ==
  /\ home.mounted
  /\ text \in Keystrokes(searchBar.query)
  /\ searchBar' = [query |-> text, timers |-> TimersAfterChange(searchBar.timers, text)]
  /\ typed' = [ unchanged |-> 0,
                cancelled |-> IF searchBar.timers # {} THEN Some(searchBar.query)
                                                       ELSE typed.cancelled ]
  /\ called' = NotCalled
  /\ UNCHANGED <<home, filterPanel, fetches, latest>>
  /\ UNCHANGED vars

\* a third of the delay goes by
Tick ==
  /\ home.mounted
  /\ searchBar' =
       [searchBar EXCEPT
          !.timers = { [t EXCEPT !.elapsed = Min(@ + DebounceMs \div 3, DebounceMs)] : t \in @ }]
  /\ typed' = [typed EXCEPT !.unchanged = Min(@ + DebounceMs \div 3, DebounceMs)]
  /\ called' = NotCalled
  /\ UNCHANGED <<home, filterPanel, fetches, latest>>
  /\ UNCHANGED vars

\* Home lines 229-231
handleSearch(query) ==
  setFilters(Assign(Assign(home.filters, "query", Str(query)), "page", Number(1)),
             filterPanel)

\* SearchBar lines 20-22: the callback of a timer that is due
TimerFires(t) ==
  /\ home.mounted
  /\ t \in searchBar.timers
  /\ t.elapsed >= DebounceMs
  /\ handleSearch(t.value)
  /\ searchBar' = [searchBar EXCEPT !.timers = @ \ {t}]
  /\ typed' = [typed EXCEPT !.cancelled = None]
  /\ called' = [ def       |-> TRUE,
                 value     |-> t.value,
                 text      |-> searchBar.query,
                 unchanged |-> typed.unchanged,
                 cancelled |-> typed.cancelled ]
  /\ UNCHANGED vars

\* what the controls of the panel pass to handleFilterChange: the check box
\* "Inclui Jogos" toggled
PanelChoices(localFilters) ==
  { <<"inclui_jogos", IF Get(localFilters, "inclui_jogos") = True THEN Undef ELSE True>> }

\* FilterPanel lines 42-46
handleFilterChange(key, value) ==
  /\ home.mounted
  /\ \E newFilters \in {Assign(Assign(filterPanel.localFilters, key, value),
                               "page", Number(1))} :
       setFilters(newFilters, [filterPanel EXCEPT !.localFilters = newFilters])
  /\ called' = NotCalled
  /\ UNCHANGED <<searchBar, typed>>
  /\ UNCHANGED vars

\* FilterPanel lines 56-64: "Limpar Filtros"
clearFilters ==
  /\ home.mounted
  /\ setFilters(DefaultFilters, [filterPanel EXCEPT !.localFilters = DefaultFilters])
  /\ called' = NotCalled
  /\ UNCHANGED <<searchBar, typed>>
  /\ UNCHANGED vars

\* the server takes up a request of the page: the route handler runs for it
Serve(i) ==
  /\ fetches[i].state = "sent"
  /\ GET(fetches[i].params, {})
  /\ fetches' = [fetches EXCEPT ![i].state = "handling"]
  /\ called' = NotCalled
  /\ UNCHANGED <<home, filterPanel, searchBar, typed, latest>>

\* the response goes out to the fetch it answers
Reply ==
  /\ SendResponse
  /\ fetches' = [ i \in 1..Len(fetches) |->
                    IF fetches[i].state = "handling"
                      THEN [fetches[i] EXCEPT !.state = "answered", !.body = response]
                      ELSE fetches[i] ]
  /\ called' = NotCalled
  /\ UNCHANGED <<home, filterPanel, searchBar, typed, latest>>

Remove(seq, i) == SubSeq(seq, 1, i - 1) \o SubSeq(seq, i + 1, Len(seq))

\* Home lines 212-222: fetchProducts goes on after its awaits
Receive(i) ==
  /\ fetches[i].state = "answered"
  /\ home' = [home EXCEPT !.products     = fetches[i].body.products,
                          !.total        = fetches[i].body.total,
                          !.totalPages   = fetches[i].body.totalPages,
                          !.currentPage  = fetches[i].body.page,
                          !.filterValues = fetches[i].body.filters,
                          !.loading      = FALSE]
  /\ fetches' = Remove(fetches, i)
  /\ latest' = IF fetches[i].last THEN [def |-> TRUE, body |-> fetches[i].body] ELSE latest
  /\ called' = NotCalled
  /\ UNCHANGED <<filterPanel, searchBar, typed>>
  /\ UNCHANGED vars

\* the two files hold the first listings of their pools
InitHome ==
  /\ files = [ magazineluiza |->
                 SubSeq(MagazineluizaPool, 1, Min(MaxPerSource, Len(MagazineluizaPool))),
               mercadolivre  |->
                 SubSeq(MercadolivrePool, 1, Min(MaxPerSource, Len(MercadolivrePool))) ]
  /\ Started

NextHome ==
  \/ Mount
  \/ \E text \in Keystrokes(searchBar.query) : onChange(text)
  \/ Tick
  \/ \E t \in searchBar.timers : TimerFires(t)
  \/ \E c \in PanelChoices(filterPanel.localFilters) : handleFilterChange(c[1], c[2])
  \/ clearFilters
  \/ \E i \in 1..Len(fetches) : Serve(i)
  \/ Reply
  \/ \E i \in 1..Len(fetches) : Receive(i)

allVars == << vars, pageVars >>

SpecHome == InitHome /\ [][NextHome]_allVars

\* the page of a user who types and leaves the panel alone
NextSearchBar ==
  \/ Mount
  \/ \E text \in Keystrokes(searchBar.query) : onChange(text)
  \/ Tick
  \/ \E t \in searchBar.timers : TimerFires(t)
  \/ \E i \in 1..Len(fetches) : Serve(i)
  \/ Reply
  \/ \E i \in 1..Len(fetches) : Receive(i)

SpecSearchBar == InitHome /\ [][NextSearchBar]_allVars

(***************************************************************************)
\* the listings of the two sources, magazineluiza first, each in its own order
AllRaw == files.magazineluiza \o files.mercadolivre

\* the collection a load builds from the sources, in load order
AllProducts == MapProduct(AllRaw)

\* the 1-based position of a record in the concatenated sources
LoadPos(p) == CHOOSE i \in 1..Len(AllRaw) : AllRaw[i].link_pagina = p.link_pagina

InLoadOrder(products) ==
  \A i, j \in 1..Len(products) : i < j => LoadPos(products[i]) < LoadPos(products[j])

\* arr holds every record of the two sources, once
IsComplete(arr) ==
  \A all \in {AllProducts} :
    /\ Len(arr) = Len(all)
    /\ \A i \in 1..Len(all) : \E j \in 1..Len(arr) : arr[j] = all[i]

\* the collection a request is answered from
Collection == IF cachedProducts.set THEN cachedProducts.arr ELSE <<>>

\* the filters of the request being answered
Filters == ParseFilters(request)

\* the sorted filtered list of the request being answered
Matching == SortProducts(ApplyFilters(Collection, Filters), Filters.sortBy).arr

\* page k of the sorted filtered list m under the filters f
PageOf(m, f, k) == Paginate(m, [f EXCEPT !.page = Int2Num(k)])

RECURSIVE ConcatPages(_, _, _)
ConcatPages(m, f, k) ==
  IF k <= 0 THEN <<>> ELSE ConcatPages(m, f, k - 1) \o PageOf(m, f, k).products

RECURSIVE SumPageLengths(_, _, _)
SumPageLengths(m, f, k) ==
  IF k <= 0 THEN 0 ELSE SumPageLengths(m, f, k - 1) + Len(PageOf(m, f, k).products)

(***************************************************************************)
(* C1: evaluating a query never changes the cached collection: once the    *)
(* cache is set, every step leaves the cached sequence of records as it    *)
(* was, element for element.                                               *)
(***************************************************************************)
C1_QueryLeavesCacheUnchanged ==
  [][cachedProducts.set => cachedProducts' = cachedProducts]_vars

(***************************************************************************)
(* C2: whatever was served before, a request whose sortBy is 'original',   *)
(* absent or unrecognized returns the matching records in ascending        *)
(* original load order.                                                    *)
(***************************************************************************)
C2_DefaultSortIsLoadOrder ==
  (pc = "done" /\ Filters.sortBy \notin {SortByPrecoAsc, SortByPrecoDesc})
    => InLoadOrder(response.products)

(***************************************************************************)
(* C3: every record of the loaded collection carries an originalIndex      *)
(* equal to its 0-based position in the concatenated sources.              *)
(***************************************************************************)
C3_OriginalIndexIsLoadPosition ==
  cachedProducts.set =>
    \A i \in 1..Len(cachedProducts.arr) :
      originalIndex(cachedProducts.arr[i]) = Int2Num(LoadPos(cachedProducts.arr[i]) - 1)

(***************************************************************************)
(* C4 as claimed: only the first loadProducts call of the process reads    *)
(* the source files.                                                       *)
(***************************************************************************)
C4_OnlyFirstCallReads ==
  [][pc' = "done" => /\ calls'[1].read => ~loadCalled
                     /\ ~calls'[2].read]_vars

(***************************************************************************)
(* C4 as amended: a loadProducts call reads the source files exactly when  *)
(* no earlier call has succeeded; once a call has succeeded, every later   *)
(* call returns the cached array object of that call, and no second array  *)
(* is ever built.                                                          *)
(***************************************************************************)
C4_ReadsOnlyUntilLoaded ==
  /\ loadCount <= 1
  /\ cachedProducts.set <=> loadCount = 1
  /\ pc = "done" =>
       \A i \in 1..2 : /\ calls[i].read <=> ~calls[i].cached
                       /\ calls[i].cached => calls[i].hit /\ calls[i].set

C4_Witness ==
  /\ pc = "done"
  /\ calls[1].cached /\ calls[1].hit /\ calls[2].hit
  /\ Len(evaluated) > 1

C6_FailedLoadIsEmptyAndUncached ==
  /\ (pc = "done" /\ unreadable # {}) =>
       /\ \A i \in 1..2 : calls[i].read /\ calls[i].empty /\ ~calls[i].set
       /\ evaluated = <<>>
       /\ ~cachedProducts.set
       /\ response.total = 0
       /\ response.filters = getFilterValues(<<>>)
  /\ cachedProducts.set => IsComplete(cachedProducts.arr)
  /\ (pc = "done" /\ evaluated # <<>>) => IsComplete(evaluated)

C6_Witness ==
  /\ pc = "done"
  /\ unreadable = {"mercadolivre"}
  /\ Len(files.magazineluiza) > 1
  /\ calls[1].read /\ calls[2].read

(***************************************************************************)
(* C7: over a loaded collection, the facet values of a response are those  *)
(* of getFilterValues applied to the full collection in load order,        *)
(* whatever the filters, the sort mode and the page of the request.        *)
(***************************************************************************)
C7_FacetsOfFullCollection ==
  (pc = "done" /\ cachedProducts.set) => response.filters = getFilterValues(AllProducts)

C7_Witness ==
  /\ pc = "done"
  /\ cachedProducts.set
  /\ request.site_origem.def
  /\ response.total > 0
  /\ response.total < Len(cachedProducts.arr)
  /\ Len(response.filters.sites) > 1

(***************************************************************************)
(* C8: for a limit of at least 1, the pages 1..totalPages of a request     *)
(* have lengths that sum to total, concatenated they are the sorted        *)
(* filtered list, and total is at most the size of the collection; the     *)
(* response itself carries that total, that number of pages and, for a     *)
(* page in range, that page.                                               *)
(***************************************************************************)
C8_PagesPartitionTheResult ==
  (pc = "done" /\ response.limit >= 1) =>
    \A m \in {Matching}, f \in {Filters} :
      /\ response.total = Len(m)
      /\ response.total <= Len(Collection)
      /\ response.totalPages = PageOf(m, f, 1).totalPages
      /\ SumPageLengths(m, f, response.totalPages) = response.total
      /\ ConcatPages(m, f, response.totalPages) = m
      /\ response.page \in 1..response.totalPages =>
           response.products = PageOf(m, f, response.page).products

C8_Witness ==
  /\ pc = "done"
  /\ request.query.def
  /\ response.limit = 2
  /\ response.total = 3
  /\ response.totalPages = 2
  /\ Len(Collection) > 3

(***************************************************************************)
(* C9 as claimed: a request for a page beyond totalPages gets an empty     *)
(* products list in a successful response, with the total and totalPages   *)
(* of the page-1 request with the same filters.                            *)
(***************************************************************************)
C9_PageBeyondLastIsEmpty ==
  (pc = "done" /\ response.page > response.totalPages) =>
    \A first \in {PageOf(Matching, Filters, 1)} :
      /\ response.status = 200
      /\ response.products = <<>>
      /\ response.total = first.total
      /\ response.totalPages = first.totalPages

(***************************************************************************)
(* C9 as amended: the same, for a request whose limit is not negative (a   *)
(* limit of 0 or no limit counts as 20).                                   *)
(***************************************************************************)
C9_PageBeyondLastIsEmptyForLimit ==
  (pc = "done" /\ response.limit >= 1 /\ response.page > response.totalPages) =>
    \A first \in {PageOf(Matching, Filters, 1)} :
      /\ response.status = 200
      /\ response.products = <<>>
      /\ response.total = first.total
      /\ response.totalPages = first.totalPages

C9_Witness ==
  /\ pc = "done"
  /\ response.limit = 2
  /\ response.total > 2
  /\ response.page > response.totalPages
  /\ PageOf(Matching, Filters, 1).products # <<>>

(***************************************************************************)
(* C10: a request whose page number is below 1 is clamped to page 1: the   *)
(* response has page = 1 and the products of the page-1 request.           *)
(***************************************************************************)
C10_PageBelowOneIsPageOne ==
  (pc = "done" /\ Truthy(request.page) /\ NumLT(parseInt(request.page.v), Int2Num(1))) =>
    /\ response.page = 1
    /\ response.products = PageOf(Matching, Filters, 1).products

(***************************************************************************)
(* C11: a response to sortBy=preco_asc lists its records in non-decreasing *)
(* preco_vista, a response to sortBy=preco_desc in non-increasing          *)
(* preco_vista, and in both the records of equal price are in ascending    *)
(* load order, whatever the requests served before have done to the cache. *)
(***************************************************************************)
PriceOrdered(seq, ascending) ==
  \A i, j \in 1..Len(seq) :
    i < j =>
      /\ IF ascending THEN NumLE(seq[i].preco_vista, seq[j].preco_vista)
                      ELSE NumGE(seq[i].preco_vista, seq[j].preco_vista)
      /\ seq[i].preco_vista = seq[j].preco_vista => LoadPos(seq[i]) < LoadPos(seq[j])

C11_PriceSortIsStable ==
  /\ (pc = "done" /\ Filters.sortBy = SortByPrecoAsc) => PriceOrdered(response.products, TRUE)
  /\ (pc = "done" /\ Filters.sortBy = SortByPrecoDesc) => PriceOrdered(response.products, FALSE)

\* a descending response with two records of one price, answered from a cache
\* that an earlier request had left out of load order
C11_Witness ==
  /\ pc = "done"
  /\ Filters.sortBy = SortByPrecoDesc
  /\ ~InLoadOrder(evaluated)
  /\ \E i, j \in 1..Len(response.products) :
       i < j /\ response.products[i].preco_vista = response.products[j].preco_vista

(***************************************************************************)
(* C12: the records that pass the filters do not depend on the order of    *)
(* the stages: the text, price, categorical, boolean and storage filters   *)
(* applied in any permutation keep the records the handler returned.       *)
(***************************************************************************)
StageKinds == {"query", "preco", "categorical", "boolean", "espaco"}

RunStage(kind, st, f) ==
  CASE kind = "query"       -> QueryStage(st, f)
    [] kind = "preco"       -> PrecoStages(st, f)
    [] kind = "categorical" -> CategoricalStages(st, f)
    [] kind = "boolean"     -> BooleanStages(st, f)
    [] kind = "espaco"      -> EspacoStages(st, f)

RECURSIVE ApplyInOrder(_, _, _)
ApplyInOrder(order, st, f) ==
  IF order = <<>> THEN st
  ELSE ApplyInOrder(Tail(order), RunStage(Head(order), st, f), f)

\* the condition under which the handler runs a stage of the group at all
KindActive(kind, f) ==
  CASE kind = "query"       -> f.query.def
    [] kind = "preco"       -> f.precoMin # undefined \/ f.precoMax # undefined
    [] kind = "categorical" -> \E name \in {"modelo", "tipo", "marca", "site_origem"} :
                                 f[name].def /\ Len(f[name].v) > 0
    [] kind = "boolean"     -> f.inclui_controles.def \/ f.inclui_jogos.def
    [] kind = "espaco"      -> f.espacoMin # undefined \/ f.espacoMax # undefined

\* the groups with a stage the handler runs under the filters f; a stage it
\* skips returns the working array as it is
ActiveKinds(f) == { k \in StageKinds : KindActive(k, f) }

\* the permutations of the groups K
StageOrders(K) ==
  { o \in [1..Cardinality(K) -> K] : \A i, j \in DOMAIN o : i # j => o[i] # o[j] }

\* the response lists records of the set S and counts all of them
ReturnsFrom(S) ==
  /\ response.total = Cardinality(S)
  /\ Range(response.products) \subseteq S

\* the page of the response holds the whole result
WholeResult ==
  /\ OrDefault(Filters.page, DefaultPage) = 1
  /\ OrDefault(Filters.limit, DefaultLimit) >= response.total

ReturnsExactly(S) ==
  /\ ReturnsFrom(S)
  /\ WholeResult => Range(response.products) = S

C12_StageOrderIsIrrelevant ==
  pc = "done" =>
    \A f \in {Filters} :
      /\ \A k \in StageKinds :
           ~KindActive(k, f) =>
             RunStage(k, [arr |-> evaluated, same |-> FALSE], f).arr = evaluated
      /\ \A o \in StageOrders(ActiveKinds(f)) :
           ReturnsExactly(Range(ApplyInOrder(o, [arr |-> evaluated, same |-> TRUE], f).arr))

\* two filter groups that each drop a record, and a record passes both
C12_Witness ==
  /\ pc = "done"
  /\ response.products # <<>>
  /\ Cardinality(ActiveKinds(Filters)) > 1
  /\ \A k \in StageKinds :
       KindActive(k, Filters) =>
         Len(RunStage(k, [arr |-> evaluated, same |-> TRUE], Filters).arr) < Len(evaluated)

(***************************************************************************)
(* C13: when espacoMin or espacoMax is given (the value 0 included), no    *)
(* returned record lacks espaco_armazenamento_gb, whatever the other       *)
(* filters, and every returned record has its storage within the bounds    *)
(* given.  A parameter with an empty value is a parameter not given.       *)
(***************************************************************************)
\* the number x is within the bounds given as texts of the query string
WithinBounds(x, lo, hi) ==
  /\ Truthy(lo) => NumLE(parseFloat(lo.v), x)
  /\ Truthy(hi) => NumLE(x, parseFloat(hi.v))

C13_StorageBoundExcludesNull ==
  (pc = "done" /\ (Truthy(request.espacoMin) \/ Truthy(request.espacoMax))) =>
    \A i \in 1..Len(response.products) :
      /\ response.products[i].espaco_armazenamento_gb # null
      /\ WithinBounds(response.products[i].espaco_armazenamento_gb,
                      request.espacoMin, request.espacoMax)

\* espacoMin=0 beside another filter, answered from a collection that holds a
\* record without storage, with records returned
C13_Witness ==
  /\ pc = "done"
  /\ request.espacoMin = Some(<<"0">>)
  /\ Cardinality(ActiveKinds(Filters)) > 1
  /\ \E i \in 1..Len(evaluated) : evaluated[i].espaco_armazenamento_gb = null
  /\ response.products # <<>>

(***************************************************************************)
(* C14: with precoMin and/or precoMax given, the returned records are      *)
(* exactly the records passing the other filters whose preco_vista lies    *)
(* within the bounds given, the bounds included; a bound not given         *)
(* constrains nothing.                                                     *)
(***************************************************************************)
\* the records of the evaluated collection that pass the filters f
Passing(f) == Range(ApplyFilters(evaluated, f).arr)

C14_PriceBoundsAreInclusive ==
  (pc = "done" /\ (Truthy(request.precoMin) \/ Truthy(request.precoMax))) =>
    ReturnsExactly(
      { p \in Passing([Filters EXCEPT !.precoMin = undefined, !.precoMax = undefined]) :
          WithinBounds(p.preco_vista, request.precoMin, request.precoMax) })

\* a record whose price equals the lower bound is returned, another is dropped
C14_Witness ==
  /\ pc = "done"
  /\ Truthy(request.precoMin)
  /\ response.total < Len(evaluated)
  /\ \E i \in 1..Len(response.products) :
       response.products[i].preco_vista = parseFloat(request.precoMin.v)

(***************************************************************************)
(* C15: for each of modelo, tipo, marca and site_origem, an absent or      *)
(* empty inclusion set leaves the result as it is without that filter, and *)
(* a non-empty set keeps exactly the records whose field value is one of   *)
(* its members.                                                            *)
(***************************************************************************)
CategoricalNames == {"modelo", "tipo", "marca", "site_origem"}

\* the members of the comma separated inclusion set of the parameter
Members(param) == Range(split(param.v, ","))

C15_InclusionSets ==
  pc = "done" =>
    \A name \in CategoricalNames :
      ReturnsExactly(
        { p \in Passing([Filters EXCEPT ![name] = None]) :
            Truthy(request[name]) => p[name] \in Members(request[name]) })

\* an empty set for modelo beside a set for tipo that drops some records and
\* keeps others
C15_Witness ==
  /\ pc = "done"
  /\ request.modelo = Some(<<>>)
  /\ Truthy(request.tipo)
  /\ response.total > 0
  /\ response.total < Len(evaluated)

(***************************************************************************)
(* C16: with inclui_jogos=true the returned records are exactly the        *)
(* records passing the other filters whose inclui_jogos is true; with a    *)
(* text given for inclui_controles they are exactly the records passing    *)
(* the other filters whose raw inclui_controles equals that text.          *)
(***************************************************************************)
C16_BooleanFilters ==
  /\ (pc = "done" /\ request.inclui_jogos = Some(<<"t", "r", "u", "e">>)) =>
       ReturnsExactly({ p \in Passing([Filters EXCEPT !.inclui_jogos = None]) :
                          p.inclui_jogos = TRUE })
  /\ (pc = "done" /\ Truthy(request.inclui_controles)) =>
       ReturnsExactly({ p \in Passing([Filters EXCEPT !.inclui_controles = None]) :
                          p.inclui_controles = request.inclui_controles.v })

\* both filters given; some records are returned and some are dropped
C16_Witness ==
  /\ pc = "done"
  /\ request.inclui_jogos = Some(<<"t", "r", "u", "e">>)
  /\ Truthy(request.inclui_controles)
  /\ response.total > 0
  /\ response.total < Len(evaluated)

(***************************************************************************)
(* C17 as claimed: with a non-empty query, the returned records are        *)
(* exactly the records passing the other filters for which the lower-cased *)
(* term is a substring of the lower-cased concatenation of the non-empty   *)
(* nome_anuncio, modelo, tipo, marca and cor; an empty or absent query     *)
(* keeps every record.                                                     *)
(***************************************************************************)
RECURSIVE Concatenation(_, _)
Concatenation(parts, sep) ==
  IF parts = <<>> THEN <<>>
  ELSE IF Len(parts) = 1 THEN Head(parts)
  ELSE Head(parts) \o sep \o Concatenation(Tail(parts), sep)

\* the non-empty searched fields of the record, with sep between them
SearchedText(p, sep) ==
  Concatenation(
    SelectSeq(<<p.nome_anuncio, p.modelo, p.tipo, p.marca, p.cor>>, LAMBDA x : x # <<>>),
    sep)

TermMatches(p, term, sep) == includes(toLowerCase(SearchedText(p, sep)), toLowerCase(term))

C17_QueryMatchesConcatenation ==
  pc = "done" =>
    ReturnsExactly(
      { p \in Passing([Filters EXCEPT !.query = None]) :
          Truthy(request.query) => TermMatches(p, request.query.v, <<>>) })

(***************************************************************************)
(* C17 amended: the searched text is the non-empty fields joined with one  *)
(* space between consecutive fields.                                       *)
(***************************************************************************)
C17_QueryMatchesJoinedFields ==
  pc = "done" =>
    ReturnsExactly(
      { p \in Passing([Filters EXCEPT !.query = None]) :
          Truthy(request.query) => TermMatches(p, request.query.v, <<" ">>) })

\* a term in upper case that spans two fields: some records match, some do not
C17_Witness ==
  /\ pc = "done"
  /\ request.query = Some(<<"5", " ", "A">>)
  /\ response.total > 0
  /\ response.total < Len(evaluated)

(***************************************************************************)
(* C18: getFilterValues returns as price range the minimum and the maximum *)
(* of preco_vista over the records with preco_vista > 0, and as storage    *)
(* range the minimum and the maximum of espaco_armazenamento_gb over the   *)
(* records where it is not null; the fallback bounds (0 and 10000, 0 and   *)
(* 2000) are returned only when no record qualifies for the range.         *)
(***************************************************************************)
\* the numbers the range of the facet is taken over
PricesInRange == { evaluated[i].preco_vista : i \in { j \in 1..Len(evaluated) :
                     NumLT(Int2Num(0), evaluated[j].preco_vista) } }

StoragesInRange == { evaluated[i].espaco_armazenamento_gb : i \in { j \in 1..Len(evaluated) :
                       evaluated[j].espaco_armazenamento_gb # null } }

MinOf(S) == CHOOSE x \in S : \A y \in S : NumLE(x, y)

MaxOf(S) == CHOOSE x \in S : \A y \in S : NumLE(y, x)

\* lo and hi are the minimum and the maximum of S, or the fallback bounds
IsRangeOf(lo, hi, S, fallbackMax) ==
  IF S = {} THEN lo = 0 /\ hi = fallbackMax
  ELSE Int2Num(lo) = MinOf(S) /\ Int2Num(hi) = MaxOf(S)

C18_RangesAreMinAndMax ==
  pc = "done" =>
    /\ IsRangeOf(response.filters.precoMin, response.filters.precoMax,
                 PricesInRange, FallbackPrecoMax)
    /\ IsRangeOf(response.filters.espacoMin, response.filters.espacoMax,
                 StoragesInRange, FallbackEspacoMax)

(***************************************************************************)
(* C19: for each of modelos, tipos, marcas and sites, getFilterValues      *)
(* returns exactly the distinct values of the field that are non-empty     *)
(* after trimming, each once, in ascending lexicographic order.            *)
(***************************************************************************)
FacetFields ==
  { <<"modelos", "modelo">>, <<"tipos", "tipo">>, <<"marcas", "marca">>,
    <<"sites", "site_origem">> }

StrictlyAscending(seq) == \A i, j \in 1..Len(seq) : i < j => StrLess(seq[i], seq[j])

C19_FacetValuesDistinctSorted ==
  pc = "done" =>
    \A ff \in FacetFields :
      /\ Range(response.filters[ff[1]])
           = { evaluated[i][ff[2]] : i \in { j \in 1..Len(evaluated) :
                 trim(evaluated[j][ff[2]]) # <<>> } }
      /\ StrictlyAscending(response.filters[ff[1]])

\* a blank model, an empty model and a model that two listings share
C19_Witness ==
  /\ pc = "done"
  /\ \E i, j, k, l \in 1..Len(evaluated) :
       /\ evaluated[i].modelo = <<" ">>
       /\ evaluated[j].modelo = <<>>
       /\ k # l /\ evaluated[k].modelo = evaluated[l].modelo
       /\ evaluated[k].modelo \in Range(response.filters.modelos)
  /\ Len(response.filters.marcas) > 1

(***************************************************************************)
(* C20: for a text of digits, dots, commas and spaces normalizePrice       *)
(* follows the rules in their order: an empty or blank text gives 0; with  *)
(* a comma the dots are removed and the comma is the decimal separator;    *)
(* without a comma a single dot followed by exactly 2 digits is a decimal  *)
(* point; otherwise all dots are removed and the result is an integer; a   *)
(* remainder that is not a decimal number gives 0.                         *)
(***************************************************************************)
Without(text, c) == SelectSeq(text, LAMBDA x : x # c)

CountOf(text, c) == Len(SelectSeq(text, LAMBDA x : x = c))

\* rules 3 to 5: the text with its separators resolved
Resolved(t) ==
  IF CountOf(t, ",") > 0
    THEN [i \in 1..Len(Without(t, ".")) |->
            IF Without(t, ".")[i] = "," THEN "." ELSE Without(t, ".")[i]]
  ELSE IF CountOf(t, ".") = 1 /\ Len(t) >= 3 /\ t[Len(t) - 2] = "."
            /\ IsDigit(t[Len(t) - 1]) /\ IsDigit(t[Len(t)])
    THEN t
  ELSE Without(t, ".")

\* rule 6: the value of a decimal number (digits, at most one dot, a digit at
\* least), and 0 for any other text
DecimalValue(t) ==
  IF /\ CountOf(t, ".") <= 1
     /\ \A i \in 1..Len(t) : IsDigit(t[i]) \/ t[i] = "."
     /\ \E i \in 1..Len(t) : IsDigit(t[i])
    THEN Num(DigitsValue(Without(t, ".")),
             Pow10(Len(t) - Len(DigitRun(t)) - CountOf(t, ".")))
    ELSE Int2Num(0)

parsePrice(text) ==
  IF Without(text, " ") = <<>> THEN Int2Num(0)
  ELSE DecimalValue(Resolved(Without(text, " ")))

C20_PriceRulesInOrder ==
  pc = "done" =>
    \A i \in 1..Len(evaluated) :
      evaluated[i].preco_vista = parsePrice(AllRaw[i].preco_vista)

(***************************************************************************)
(* C21: for every price text, a leading minus sign or characters that are  *)
(* no digits included, normalizePrice returns a finite number that is      *)
(* >= 0.                                                                   *)
(***************************************************************************)
C21_PriceIsFiniteNonNegative ==
  pc = "done" =>
    \A i \in 1..Len(evaluated) :
      /\ IsNumber(evaluated[i].preco_vista)
      /\ NumGE(evaluated[i].preco_vista, Int2Num(0))

(***************************************************************************)
(* C22: normalisation is idempotent: normalizePrice applied to the price   *)
(* of a normalised record rendered back as text, extractStorageInGB        *)
(* applied to its espaco_armazenamento and hasGames applied to its         *)
(* jogos_incluidos give the preco_vista, espaco_armazenamento_gb and       *)
(* inclui_jogos the record has.                                            *)
(***************************************************************************)
C22_NormalisationIsIdempotent ==
  pc = "done" =>
    \A i \in 1..Len(evaluated) :
      /\ normalizePrice(NumberToString(evaluated[i].preco_vista)) = evaluated[i].preco_vista
      /\ extractStorageInGB(evaluated[i].espaco_armazenamento)
           = evaluated[i].espaco_armazenamento_gb
      /\ hasGames(evaluated[i].jogos_incluidos) = evaluated[i].inclui_jogos

(***************************************************************************)
(* C23: extractStorageInGB returns the number of the first TB token times  *)
(* 1024 whenever the text holds a TB token, even with a GB token earlier   *)
(* in the text; otherwise the number of the first GB token; otherwise      *)
(* null.  A token is a number, optional white space and the unit in any    *)
(* case; a comma or a dot in the number is its decimal separator.          *)
(***************************************************************************)
\* digits, with at most one dot or comma between two of them
IsNumberText(t) ==
  /\ t # <<>>
  /\ IsDigit(t[1]) /\ IsDigit(t[Len(t)])
  /\ \A i \in 1..Len(t) : IsDigit(t[i]) \/ t[i] \in {".", ","}
  /\ Cardinality({ i \in 1..Len(t) : ~IsDigit(t[i]) }) <= 1

\* the two letters of the unit are at the positions k and k + 1, in any case
UnitAt(s, k, unit) ==
  k + 1 <= Len(s) /\ toLowerCase(<<s[k], s[k + 1]>>) = toLowerCase(unit)

\* the positions <<i, j>> of the numbers of the tokens of the unit
Tokens(s, unit) ==
  { t \in (1..Len(s)) \X (1..Len(s)) :
      /\ t[1] <= t[2]
      /\ IsNumberText(SubSeq(s, t[1], t[2]))
      /\ \E k \in (t[2] + 1)..Len(s) :
           /\ \A m \in (t[2] + 1)..(k - 1) : s[m] = " "
           /\ UnitAt(s, k, unit) }

\* the token that starts first
FirstToken(tokens) == CHOOSE t \in tokens : \A u \in tokens : t[1] <= u[1]

\* the value of a number text
NumberValue(t) == DecimalValue([i \in 1..Len(t) |-> IF t[i] = "," THEN "." ELSE t[i]])

FirstNumber(s, tokens) ==
  NumberValue(SubSeq(s, FirstToken(tokens)[1], FirstToken(tokens)[2]))

StorageByTokens(s, tb, gb) ==
  IF tb # {} THEN NumMul(FirstNumber(s, tb), TBinGB)
  ELSE IF gb # {} THEN FirstNumber(s, gb)
  ELSE null

C23_TBBeforeGB ==
  pc = "done" =>
    \A i \in 1..Len(evaluated) :
      evaluated[i].espaco_armazenamento_gb
        = StorageByTokens(AllRaw[i].espaco_armazenamento,
                          Tokens(AllRaw[i].espaco_armazenamento, <<"T", "B">>),
                          Tokens(AllRaw[i].espaco_armazenamento, <<"G", "B">>))

\* a text with a GB token before its TB token, whose numbers differ: the
\* storage is that of the TB token
C23_Witness ==
  /\ pc = "done"
  /\ Len(evaluated) = 1
  /\ \E s \in {AllRaw[1].espaco_armazenamento} :
     \E tb \in {Tokens(s, <<"T", "B">>)}, gb \in {Tokens(s, <<"G", "B">>)} :
       /\ tb # {} /\ gb # {}
       /\ FirstToken(gb)[1] < FirstToken(tb)[1]
       /\ FirstNumber(s, gb) # FirstNumber(s, tb)
       /\ evaluated[1].espaco_armazenamento_gb = NumMul(FirstNumber(s, tb), TBinGB)

(***************************************************************************)
(* C24: over a collection of 3 records whose raw prices are "3999.00",     *)
(* "4.499" and "449,90", a request with limit=2 and sortBy=preco_asc       *)
(* returns for page 1 the two cheapest records, 449.90 then 3999.00, with  *)
(* total = 3 and totalPages = 2, and for page 2 the remaining record       *)
(* (4499); in every response totalPages = ceil(total / limit).             *)
(***************************************************************************)
Prices(products) == [i \in 1..Len(products) |-> products[i].preco_vista]

\* k is the least integer that is not below a / b, for b # 0
IsCeilOfQuotient(k, a, b) ==
  IF b > 0 THEN a <= k * b /\ k * b < a + b
           ELSE a >= k * b /\ k * b > a + b

C24_EndToEnd ==
  /\ (/\ pc = "done" /\ cachedProducts.set
      /\ { AllRaw[i].preco_vista : i \in 1..Len(AllRaw) }
           = { <<"3","9","9","9",".","0","0">>, <<"4",".","4","9","9">>,
               <<"4","4","9",",","9","0">> }
      /\ Len(AllRaw) = 3
      /\ request.sortBy = Some(SortByPrecoAsc)
      /\ request.limit = Some(<<"2">>)) =>
       /\ response.total = 3
       /\ response.totalPages = 2
       /\ request.page \in {None, Some(<<"1">>)} =>
            Prices(response.products) = <<Num(44990, 100), Num(399900, 100)>>
       /\ request.page = Some(<<"2">>) =>
            Prices(response.products) = <<Int2Num(4499)>>
  /\ pc = "done" =>
       IsCeilOfQuotient(response.totalPages, response.total, response.limit)

\* page 2 of the ascending order, answered from a cache that an earlier
\* request had sorted into another order
C24_Witness ==
  /\ pc = "done"
  /\ calls[1].hit
  /\ Prices(evaluated) = <<Int2Num(4499), Int2Num(3999), Num(4499, 10)>>
  /\ request.sortBy = Some(SortByPrecoAsc)
  /\ request.limit = Some(<<"2">>)
  /\ request.page = Some(<<"2">>)
  /\ Len(response.products) = 1

(***************************************************************************)
(* C25: in Home, when the filters change while an earlier fetch is in      *)
(* flight, then once every fetch has completed the products, total,        *)
(* totalPages and current page on display are those of the response to the *)
(* most recent fetch, in whatever order the responses arrive.              *)
(***************************************************************************)
C25_LatestResponseIsDisplayed ==
  (home.mounted /\ fetches = <<>> /\ latest.def) =>
    /\ home.products = latest.body.products
    /\ home.total = latest.body.total
    /\ home.totalPages = latest.body.totalPages
    /\ home.currentPage = latest.body.page

(***************************************************************************)
(* C26: SearchBar calls onSearch only with a query that has stayed         *)
(* unchanged for 300 ms: every change of the text clears the pending timer *)
(* before a new one is started, so that at most one timer is pending, it   *)
(* is the timer of the text on display, and a value that was overwritten   *)
(* within 300 ms is never passed to onSearch.                              *)
(***************************************************************************)
C26_SearchIsDebounced ==
  /\ Cardinality(searchBar.timers) <= 1
  /\ \A t \in searchBar.timers :
       t.value = searchBar.query /\ t.elapsed = typed.unchanged
  /\ called.def => called.value = called.text /\ called.unchanged >= DebounceMs

\* the whole word is searched for after the timer of its first letter was
\* cleared, and Home has it in its filters
C26_Witness ==
  /\ called.def
  /\ called.value = SearchWord
  /\ called.cancelled = Some(SubSeq(SearchWord, 1, 1))
  /\ Get(home.filters, "query") = Str(SearchWord)

(***************************************************************************)
(* C27: whenever no timer of SearchBar is pending, the text SearchBar      *)
(* shows is the query of the filters of Home, an absent query counting as  *)
(* the empty text, after any typing, filter changes in FilterPanel and     *)
(* "Limpar Filtros" clicks.                                                *)
(***************************************************************************)
C27_SearchBarShowsQuery ==
  (home.mounted /\ searchBar.timers = {}) =>
    searchBar.query = Get(home.filters, "query").s

====
